---- MODULE Spec2Model ----
(***************************************************************************)
(* Job orchestration and status tracking of backend/app.py.                *)
(*                                                                         *)
(* One POST /analyze request per job id (analyze), one worker thread per   *)
(* accepted job (start_background_job), the two stores (the jobs table of  *)
(* engine.db and results/<job_id>/status.json), and one polling reader     *)
(* (GET /jobs/{job_id} -> read_status).                                    *)
(*                                                                         *)
(* Conventions                                                             *)
(*  - progress is kept in hundredths: 0.01 is 1, 0.10 is 10, 1.0 is 100.   *)
(*  - None / SQL NULL is the string "null".                                *)
(*  - a file's content is a sequence: << >> is a file that was opened for  *)
(*    writing (truncated) and does not hold a complete JSON document;      *)
(*    <<doc>> is a file holding the complete document doc.                 *)
(*  - a file under results/<job_id>/ is named by its path below that       *)
(*    directory, written as the URL path the result reports for it.        *)
(*  - a program position is named by the source line of the call it is     *)
(*    about to make ("w430" is the worker about to execute line 430).      *)
(***************************************************************************)
EXTENDS Integers, Sequences, FiniteSets

VARIABLES
    apc,          \* analyze: position of the request handler, per job id
    req_views,    \* analyze: views supplied by the request (side_video, front_video)
    paths,        \* analyze: side_path / front_path that are not None
    uploads,      \* files under UPLOADS_DIR, as <<job id, label>>
    job_dirs,     \* job ids whose results/<job_id> directory exists
    status_json,  \* results/<job_id>/status.json: job id -> file content
    committed,    \* job id -> the last document write_status wrote completely
    jobs_table,   \* the jobs table: job id -> row
    wpc,          \* start_background_job: position of the worker thread, per job id
    err_msg,      \* start_background_job: err_msg of the except clause
    runs,         \* external processes run for the job, in order: <<stage, exit code>>
    rpc,          \* read_status of the reader: position
    rjob,         \* read_status of the reader: job id being read
    rres,         \* what the reader's last read_status returned or raised
    faults,       \* number of store calls that raised
    files,        \* files under results/<job_id>/, as <<job id, path>>
    cargs,        \* views whose analysis.json was passed to combine_views, per job id
    outputs,      \* what the external programs write: "nominal" or "any"
    upl           \* one _save_and_validate call: its inputs, locals and file

vars == <<apc, req_views, paths, uploads, job_dirs, status_json, committed,
          jobs_table, wpc, err_msg, runs, rpc, rjob, rres, faults,
          files, cargs, outputs, upl>>

(***************************************************************************)
(* Bounds                                                                  *)
(***************************************************************************)
\* number of POST /analyze requests (job ids)
NumJobs == 1
\* number of store calls (write_status, read_status, db_*) that raise
MaxFaults == 1

Jobs == 1..NumJobs
\* number of job ids of the specification that follows concurrent jobs
NumConcurrent == 2
JobIds == 1..NumConcurrent
Labels == {"side", "front"}
\* exit codes of an external process: zero, non-zero
ExitCodes == {0, 1}
\* outcomes of _save_and_validate for one upload
AdmissionOutcomes == {"ok", "too_large", "unreadable", "too_long"}

(***************************************************************************)
(* Status documents                                                        *)
(***************************************************************************)
NullResult ==
    [overlay_url |-> "null", overlay_side_url |-> "null",
     overlay_front_url |-> "null", analysis_url |-> "null",
     lesson_plan_url |-> "null", practice_plan_pdf_url |-> "null",
     practice_plan_txt_url |-> "null", views |-> {}]

\* the payload analyze writes, which is also what read_status synthesizes
\* when the directory exists and status.json does not
QueuedDoc ==
    [status |-> "queued", progress |-> 0, stage |-> "starting",
     error |-> "null", result |-> NullResult]

RunningDoc ==
    [status |-> "running", progress |-> 1, stage |-> "starting_worker",
     error |-> "null", result |-> NullResult]

\* Path.exists() of a file under results/<job_id>/
Exists(j, path) == <<j, path>> \in files

WebOverlay(view) == "/" \o view \o "/overlay_release_web.mp4"
FullOverlay(view) == "/" \o view \o "/overlay_release.mp4"
ViewAnalysis(view) == "/" \o view \o "/analysis.json"
CombinedAnalysis == "/combined/analysis.json"
LessonPlan == "/combined/lesson_plan.json"
PracticePlanPdf == "/combined/practice_plan.pdf"
PracticePlanTxt == "/combined/practice_plan.txt"
\* combined/analysis.json holds JSON that is not an object, or whose
\* "summary" is a non-empty value that is not an object
NotAnObject == "/combined/analysis.json is not an object"

\* _pick_overlay_url with the two exists() tests in the other order
_pick_overlay_url_prefers_full(j, view) ==
    IF Exists(j, FullOverlay(view)) THEN FullOverlay(view)
    ELSE IF Exists(j, WebOverlay(view)) THEN WebOverlay(view)
    ELSE "null"

\* prefer the web overlay if present, else the full overlay, else None
_pick_overlay_url(j, view) ==
    IF Exists(j, WebOverlay(view)) THEN WebOverlay(view)
    ELSE IF Exists(j, FullOverlay(view)) THEN FullOverlay(view)
    ELSE "null"

_infer_txt_url(j) == IF Exists(j, PracticePlanTxt) THEN PracticePlanTxt ELSE "null"

\* Python's `a or b` on Optional[str]
Or(a, b) == IF a # "null" THEN a ELSE b

\* lines 524-527 with both views reported whatever was uploaded
Result_reports_both_views(j, ps) ==
    LET overlay_side_url == IF "side" \in ps THEN _pick_overlay_url(j, "side") ELSE "null"
        overlay_front_url == IF "front" \in ps THEN _pick_overlay_url(j, "front") ELSE "null"
    IN  [overlay_url |-> Or(overlay_side_url, overlay_front_url),
         overlay_side_url |-> overlay_side_url,
         overlay_front_url |-> overlay_front_url,
         analysis_url |-> CombinedAnalysis,
         lesson_plan_url |-> LessonPlan,
         practice_plan_pdf_url |-> PracticePlanPdf,
         practice_plan_txt_url |-> _infer_txt_url(j),
         views |-> Labels]

\* the result object of a done job (lines 481-529); ps are the views whose
\* path is not None. The embedded practice_plan, lesson_plan and
\* analysis_summary objects and throws_detected are left out.
Result(j, ps) ==
    LET overlay_side_url == IF "side" \in ps THEN _pick_overlay_url(j, "side") ELSE "null"
        overlay_front_url == IF "front" \in ps THEN _pick_overlay_url(j, "front") ELSE "null"
    IN  [overlay_url |-> Or(overlay_side_url, overlay_front_url),
         overlay_side_url |-> overlay_side_url,
         overlay_front_url |-> overlay_front_url,
         analysis_url |-> CombinedAnalysis,
         lesson_plan_url |-> LessonPlan,
         practice_plan_pdf_url |-> PracticePlanPdf,
         practice_plan_txt_url |-> _infer_txt_url(j),
         views |-> ps]

DoneDoc(j, ps) ==
    [status |-> "done", progress |-> 100, stage |-> "done",
     error |-> "null", result |-> Result(j, ps)]

FailedDoc(msg) ==
    [status |-> "failed", progress |-> 100, stage |-> "failed",
     error |-> msg, result |-> NullResult]

\* open(path, "w") of write_text: the file exists and is empty
Truncate(fs, j) ==
    [k \in (DOMAIN fs) \cup {j} |-> IF k = j THEN << >> ELSE fs[k]]

\* the write of write_text completing: the file holds the whole document
WriteText(fs, j, doc) ==
    [k \in (DOMAIN fs) \cup {j} |-> IF k = j THEN <<doc>> ELSE fs[k]]

\* json.loads(p.read_text()) succeeds
Readable(fs, j) == j \in DOMAIN fs /\ fs[j] # << >>

(***************************************************************************)
(* Job store                                                               *)
(***************************************************************************)
COALESCE(new, old) == IF new = "null" THEN old ELSE new

\* progress: Optional[float] = None, for the numeric column
NullProgress == -1

db_insert_job(table, j) ==
    [k \in (DOMAIN table) \cup {j} |->
        IF k = j
        THEN [status |-> "queued", progress |-> 0, stage |-> "starting",
              error_message |-> "null", overlay_url |-> "null",
              analysis_url |-> "null", practice_plan_url |-> "null",
              practice_plan_txt_url |-> "null", lesson_plan_url |-> "null"]
        ELSE table[k]]

db_update_job_status(table, j, status, progress, stage) ==
    [k \in DOMAIN table |->
        IF k = j
        THEN [table[k] EXCEPT !.status = COALESCE(status, @),
                              !.progress = IF progress = NullProgress THEN @ ELSE progress,
                              !.stage = COALESCE(stage, @)]
        ELSE table[k]]

\* db_mark_job_failed without "progress = 1.0"
db_mark_job_failed_keeps_progress(table, j, error_message) ==
    [k \in DOMAIN table |->
        IF k = j
        THEN [table[k] EXCEPT !.status = "failed", !.stage = "failed",
                              !.error_message = error_message]
        ELSE table[k]]

\* db_mark_job_failed without "status = 'failed'"
db_mark_job_failed_keeps_status(table, j, error_message) ==
    [k \in DOMAIN table |->
        IF k = j
        THEN [table[k] EXCEPT !.progress = 100, !.stage = "failed",
                              !.error_message = error_message]
        ELSE table[k]]

\* db_mark_job_failed without "WHERE job_id = ?"
db_mark_job_failed_every_row(table, j, error_message) ==
    [k \in DOMAIN table |->
        [table[k] EXCEPT !.status = "failed", !.progress = 100,
                         !.stage = "failed",
                         !.error_message = error_message]]

\* db_mark_job_failed without "stage = 'failed'"
db_mark_job_failed_keeps_stage(table, j, error_message) ==
    [k \in DOMAIN table |->
        IF k = j
        THEN [table[k] EXCEPT !.status = "failed", !.progress = 100,
                              !.error_message = error_message]
        ELSE table[k]]

db_mark_job_failed(table, j, error_message) ==
    [k \in DOMAIN table |->
        IF k = j
        THEN [table[k] EXCEPT !.status = "failed", !.progress = 100,
                              !.stage = "failed",
                              !.error_message = error_message]
        ELSE table[k]]

db_mark_job_done(table, j, overlay_url, analysis_url, practice_plan_url, practice_plan_txt_url, lesson_plan_url) ==
    [k \in DOMAIN table |->
        IF k = j
        THEN [table[k] EXCEPT !.status = "done", !.progress = 100,
                              !.stage = "done", !.error_message = "null",
                              !.overlay_url = overlay_url,
                              !.analysis_url = analysis_url,
                              !.practice_plan_url = practice_plan_url,
                              !.practice_plan_txt_url = practice_plan_txt_url,
                              !.lesson_plan_url = lesson_plan_url]
        ELSE table[k]]

(***************************************************************************)
(* Initial state: the process has started, db_init has run, no request     *)
(***************************************************************************)
NoRead == [kind |-> "none", doc |-> << >>]

InitState ==
    /\ apc = [j \in JobIds |-> "idle"]
    /\ req_views = [j \in JobIds |-> {}]
    /\ paths = [j \in JobIds |-> {}]
    /\ uploads = {}
    /\ job_dirs = {}
    /\ status_json = << >>
    /\ committed = << >>
    /\ jobs_table = << >>
    /\ wpc = [j \in JobIds |-> "none"]
    /\ err_msg = [j \in JobIds |-> "null"]
    /\ runs = [j \in JobIds |-> << >>]
    /\ rpc = "idle"
    /\ rjob = 1
    /\ rres = NoRead
    /\ faults = 0
    /\ files = {}
    /\ cargs = [j \in JobIds |-> {}]

\* no _save_and_validate call is followed step by step
NoUpload ==
    [pc |-> "idle", stream |-> << >>, max_bytes |-> 0, pos |-> 0, written |-> 0,
     exists |-> FALSE, content |-> << >>, ret |-> "none", dur |-> 0,
     ffprobe |-> "not_run", p |-> << >>, ffmpeg |-> "not_run", p2 |-> << >>]

\* the external programs write what section 6 of the design expects of them
Init == InitState /\ outputs = "nominal" /\ upl = NoUpload

\* the external programs write any of their files
InitAnyOutputs == InitState /\ outputs = "any" /\ upl = NoUpload

(***************************************************************************)
(* POST /analyze                                                           *)
(***************************************************************************)
\* how a request ends: 400/413 of admission, 500 of a store error, 200
AnalyzeEnded == {"rejected", "error", "returned"}

\* lines 586-587: the request names its views; none supplied is a 400.
\* analyze is a coroutine that never awaits, so the event loop runs one
\* request handler to its end before it starts the next; job ids are taken
\* in request order.
analyze_begin(j) ==
    /\ apc[j] = "idle"
    /\ \A k \in JobIds : k < j => apc[k] \in AnalyzeEnded
    /\ \E vs \in SUBSET Labels :
        /\ req_views' = [req_views EXCEPT ![j] = vs]
        /\ apc' = [apc EXCEPT ![j] =
                     IF vs = {} THEN "rejected"
                     ELSE IF "side" \in vs THEN "a628" ELSE "a632"]
    /\ UNCHANGED <<paths, uploads, job_dirs, status_json, committed, jobs_table,
                   wpc, err_msg, runs, rpc, rjob, rres, faults,
                   files, cargs, outputs, upl>>

\* _save_and_validate(upl, label) with the given admission outcome: the files
\* under UPLOADS_DIR afterwards. The upload is kept when admitted and removed
\* (or never completed) on every HTTPException path.
SaveAndValidateFiles(fs, j, label, outcome) ==
    IF outcome = "ok" THEN fs \cup {<<j, label>>} ELSE fs \ {<<j, label>>}

\* analyze going on after an upload that failed admission
AfterAdmission_ignores_outcome(j, label, outcome) ==
    IF label = "side" /\ "front" \in req_views[j] THEN "a632" ELSE "a637"

\* where analyze goes after _save_and_validate of `label`
AfterAdmission(j, label, outcome) ==
    IF outcome # "ok" THEN "rejected"
    ELSE IF label = "side" /\ "front" \in req_views[j] THEN "a632"
    ELSE "a637"

\* lines 627-629
analyze_side(j) ==
    /\ apc[j] = "a628"
    /\ \E outcome \in AdmissionOutcomes :
        /\ uploads' = SaveAndValidateFiles(uploads, j, "side", outcome)
        /\ paths' = [paths EXCEPT ![j] = IF outcome = "ok" THEN @ \cup {"side"} ELSE @]
        /\ apc' = [apc EXCEPT ![j] = AfterAdmission(j, "side", outcome)]
    /\ UNCHANGED <<req_views, job_dirs, status_json, committed, jobs_table,
                   wpc, err_msg, runs, rpc, rjob, rres, faults,
                   files, cargs, outputs, upl>>

\* lines 631-634
analyze_front(j) ==
    /\ apc[j] = "a632"
    /\ \E outcome \in AdmissionOutcomes :
        /\ uploads' = SaveAndValidateFiles(uploads, j, "front", outcome)
        /\ paths' = [paths EXCEPT ![j] = IF outcome = "ok" THEN @ \cup {"front"} ELSE @]
        /\ apc' = [apc EXCEPT ![j] = AfterAdmission(j, "front", outcome)]
    /\ UNCHANGED <<req_views, job_dirs, status_json, committed, jobs_table,
                   wpc, err_msg, runs, rpc, rjob, rres, faults,
                   files, cargs, outputs, upl>>

\* line 637
analyze_mkdir(j) ==
    /\ apc[j] = "a637"
    /\ job_dirs' = job_dirs \cup {j}
    /\ apc' = [apc EXCEPT ![j] = "a638t"]
    /\ UNCHANGED <<req_views, paths, uploads, status_json, committed, jobs_table,
                   wpc, err_msg, runs, rpc, rjob, rres, faults,
                   files, cargs, outputs, upl>>

\* line 638, write_status (344-347): mkdir, then write_text opens the file
analyze_write_status_open(j) ==
    /\ apc[j] = "a638t"
    /\ job_dirs' = job_dirs \cup {j}
    /\ status_json' = Truncate(status_json, j)
    /\ apc' = [apc EXCEPT ![j] = "a638w"]
    /\ UNCHANGED <<req_views, paths, uploads, committed, jobs_table,
                   wpc, err_msg, runs, rpc, rjob, rres, faults,
                   files, cargs, outputs, upl>>

\* line 638, write_status: write_text writes the document and closes
analyze_write_status(j) ==
    /\ apc[j] = "a638w"
    /\ status_json' = WriteText(status_json, j, QueuedDoc)
    /\ committed' = WriteText(committed, j, QueuedDoc)
    /\ apc' = [apc EXCEPT ![j] = "a650"]
    /\ UNCHANGED <<req_views, paths, uploads, job_dirs, jobs_table,
                   wpc, err_msg, runs, rpc, rjob, rres, faults,
                   files, cargs, outputs, upl>>

\* lines 650-657
analyze_db_insert(j) ==
    /\ apc[j] = "a650"
    /\ jobs_table' = db_insert_job(jobs_table, j)
    /\ apc' = [apc EXCEPT ![j] = "a659"]
    /\ UNCHANGED <<req_views, paths, uploads, job_dirs, status_json, committed,
                   wpc, err_msg, runs, rpc, rjob, rres, faults,
                   files, cargs, outputs, upl>>

\* lines 659-670: the thread is started and the handler returns the job id
analyze_thread_start(j) ==
    /\ apc[j] = "a659"
    /\ wpc' = [wpc EXCEPT ![j] = "w420t"]
    /\ apc' = [apc EXCEPT ![j] = "returned"]
    /\ UNCHANGED <<req_views, paths, uploads, job_dirs, status_json, committed,
                   jobs_table, err_msg, runs, rpc, rjob, rres, faults,
                   files, cargs, outputs, upl>>

\* a store call of analyze raises (mkdir, open or write of status.json, the
\* INSERT): the exception leaves the handler, the request ends with a 500
analyze_store_error(j) ==
    /\ apc[j] \in {"a637", "a638t", "a638w", "a650"}
    /\ faults < MaxFaults
    /\ faults' = faults + 1
    /\ apc' = [apc EXCEPT ![j] = "error"]
    /\ UNCHANGED <<req_views, paths, uploads, job_dirs, status_json, committed,
                   jobs_table, wpc, err_msg, runs, rpc, rjob, rres,
                   files, cargs, outputs, upl>>

(***************************************************************************)
(* start_background_job: the worker thread of one job                      *)
(***************************************************************************)
\* f"{type(e).__name__}: {e}" of the exceptions the worker can raise
PipelineFailed(view) == "RuntimeError: " \o view \o " pipeline failed"
CombineFailed == "RuntimeError: combine_views failed"
BuildFailed == "RuntimeError: build_combined_outputs failed"
DbError == "OperationalError: database is locked"
FileError == "OSError: status.json"
JsonError == "JSONDecodeError: Expecting value"
AttrError == "AttributeError: object has no attribute 'get'"

\* positions before the try statement, inside it, and inside its except clause
BeforeTry == {"w420t", "w420w", "w430"}
InTry == {"w435", "w436", "w439", "w440", "w450", "w461", "w466", "w477",
          "w531t", "w531w", "w542"}
InExcept == {"w554", "w556t", "w556w"}
\* positions whose next call is a store call, and the error that call raises
DbCalls == {"w430", "w435", "w439", "w450", "w466", "w542", "w554"}
FileCalls == {"w420t", "w420w", "w531t", "w531w", "w556t", "w556w"}
Ended == {"returned", "died"}

\* the first stage of the try statement (lines 434, 438, 442)
AfterSide(j) == IF "front" \in paths[j] THEN "w439" ELSE "w450"
AfterStart(j) == IF "side" \in paths[j] THEN "w435" ELSE AfterSide(j)

\* progress checkpoints of lines 430, 435, 439, 450, 466
ProgressStartingWorker == 1
ProgressRunningSide == 10
ProgressRunningFront == 45
ProgressCombining == 75
ProgressBuilding == 88

\* a db_update_job_status(job_id, "running", progress, stage) call of the worker
StageUpdate(j, at, progress, stage, next) ==
    /\ wpc[j] = at
    /\ jobs_table' = db_update_job_status(jobs_table, j, "running", progress, stage)
    /\ wpc' = [wpc EXCEPT ![j] = next]
    /\ UNCHANGED <<apc, req_views, paths, uploads, job_dirs, status_json, committed,
                   err_msg, runs, rpc, rjob, rres, faults,
                   files, cargs, outputs, upl>>

\* the files a stage is expected to write (section 6 of the design)
StageFiles(stage) ==
    CASE stage = "combine_views" -> {CombinedAnalysis}
      [] stage = "build_combined_outputs" -> {LessonPlan, PracticePlanPdf, PracticePlanTxt}
      [] OTHER -> {ViewAnalysis(stage), WebOverlay(stage), FullOverlay(stage)}

\* the sets of files one run of a stage may leave behind. The external
\* programs are opaque: under "any" each of them may write any of its files
\* whatever its exit code (and combine_views a document that is not an
\* object); under "nominal" it writes all of them when it exits zero and
\* none when it does not.
OutputChoices(stage, rc) ==
    IF outputs = "any"
    THEN SUBSET StageFiles(stage)
           \cup (IF stage = "combine_views"
                 THEN {{CombinedAnalysis, NotAnObject}} ELSE {})
    ELSE {IF rc = 0 THEN StageFiles(stage) ELSE {}}

\* lines 452-459: the --side / --front arguments of combine_views
CombineArgs(j) == {v \in paths[j] : Exists(j, ViewAnalysis(v))}

\* a stage whose returncode is not checked
RunStage_ignores_exit_code(j, at, stage, next, message) ==
    /\ wpc[j] = at
    /\ \E rc \in ExitCodes :
        /\ runs' = [runs EXCEPT ![j] = Append(@, <<stage, rc>>)]
        /\ wpc' = [wpc EXCEPT ![j] = next]
        /\ err_msg' = [err_msg EXCEPT ![j] = IF rc = 0 THEN @ ELSE message]
        /\ \E written \in OutputChoices(stage, rc) :
              files' = files \cup {<<j, f>> : f \in written}
    /\ cargs' = [cargs EXCEPT ![j] = IF stage = "combine_views" THEN CombineArgs(j) ELSE @]
    /\ UNCHANGED <<apc, req_views, paths, uploads, job_dirs, status_json, committed,
                   jobs_table, rpc, rjob, rres, faults, outputs, upl>>

\* a stage that is run a second time after its first non-zero exit
RunStage_retries(j, at, stage, next, message) ==
    /\ wpc[j] = at
    /\ \E rc \in ExitCodes :
        /\ runs' = [runs EXCEPT ![j] = Append(@, <<stage, rc>>)]
        /\ wpc' = [wpc EXCEPT ![j] =
                      IF rc = 0 THEN next
                      ELSE IF \E i \in 1..Len(runs[j]) : runs[j][i][1] = stage
                           THEN "w554" ELSE at]
        /\ err_msg' = [err_msg EXCEPT ![j] = IF rc = 0 THEN @ ELSE message]
        /\ \E written \in OutputChoices(stage, rc) :
              files' = files \cup {<<j, f>> : f \in written}
    /\ cargs' = [cargs EXCEPT ![j] = IF stage = "combine_views" THEN CombineArgs(j) ELSE @]
    /\ UNCHANGED <<apc, req_views, paths, uploads, job_dirs, status_json, committed,
                   jobs_table, rpc, rjob, rres, faults, outputs, upl>>

\* subprocess.run of one stage and the check of its returncode: a non-zero
\* exit raises RuntimeError, which the except clause of line 552 catches
RunStage(j, at, stage, next, message) ==
    /\ wpc[j] = at
    /\ \E rc \in ExitCodes :
        /\ runs' = [runs EXCEPT ![j] = Append(@, <<stage, rc>>)]
        /\ wpc' = [wpc EXCEPT ![j] = IF rc = 0 THEN next ELSE "w554"]
        /\ err_msg' = [err_msg EXCEPT ![j] = IF rc = 0 THEN @ ELSE message]
        /\ \E written \in OutputChoices(stage, rc) :
              files' = files \cup {<<j, f>> : f \in written}
    /\ cargs' = [cargs EXCEPT ![j] = IF stage = "combine_views" THEN CombineArgs(j) ELSE @]
    /\ UNCHANGED <<apc, req_views, paths, uploads, job_dirs, status_json, committed,
                   jobs_table, rpc, rjob, rres, faults, outputs, upl>>

\* the first half of a write_status call of the worker: write_text opens
\* status.json for writing, which empties it
WriteStatusOpen(j, at, next) ==
    /\ wpc[j] = at
    /\ job_dirs' = job_dirs \cup {j}
    /\ status_json' = Truncate(status_json, j)
    /\ wpc' = [wpc EXCEPT ![j] = next]
    /\ UNCHANGED <<apc, req_views, paths, uploads, committed, jobs_table,
                   err_msg, runs, rpc, rjob, rres, faults,
                   files, cargs, outputs, upl>>

\* the second half: the document is written and the file closed
WriteStatusWrite(j, at, doc, next) ==
    /\ wpc[j] = at
    /\ status_json' = WriteText(status_json, j, doc)
    /\ committed' = WriteText(committed, j, doc)
    /\ wpc' = [wpc EXCEPT ![j] = next]
    /\ UNCHANGED <<apc, req_views, paths, uploads, job_dirs, jobs_table,
                   err_msg, runs, rpc, rjob, rres, faults,
                   files, cargs, outputs, upl>>

\* lines 420-429
start_write_status_open(j) == WriteStatusOpen(j, "w420t", "w420w")
start_write_status(j) == WriteStatusWrite(j, "w420w", RunningDoc, "w430")
\* line 430
start_db_update(j) ==
    StageUpdate(j, "w430", ProgressStartingWorker, "starting_worker", AfterStart(j))
\* lines 434-436
side_db_update(j) ==
    StageUpdate(j, "w435", ProgressRunningSide, "running_side", "w436")
side_run(j) == RunStage(j, "w436", "side", AfterSide(j), PipelineFailed("side"))
\* lines 438-440
front_db_update(j) ==
    StageUpdate(j, "w439", ProgressRunningFront, "running_front", "w440")
front_run(j) == RunStage(j, "w440", "front", "w450", PipelineFailed("front"))
\* lines 450-463
combine_db_update(j) ==
    StageUpdate(j, "w450", ProgressCombining, "combining_views", "w461")
combine_run(j) == RunStage(j, "w461", "combine_views", "w466", CombineFailed)
\* lines 466-479
build_db_update(j) ==
    StageUpdate(j, "w466", ProgressBuilding, "building_combined_outputs", "w477")
build_run(j) == RunStage(j, "w477", "build_combined_outputs", "w531t", BuildFailed)

\* lines 481-540: the result is assembled (combined_obj.get / summary.get
\* raise AttributeError on a document that is not an object), read_status(job_id)
\* is evaluated for started_at_unix (a status.json that does not parse raises),
\* both inside the try, then write_status opens the file
done_write_status_open(j) ==
    /\ wpc[j] = "w531t"
    /\ IF Exists(j, NotAnObject)
       THEN /\ wpc' = [wpc EXCEPT ![j] = "w554"]
            /\ err_msg' = [err_msg EXCEPT ![j] = AttrError]
            /\ UNCHANGED status_json
       ELSE IF Readable(status_json, j)
       THEN /\ status_json' = Truncate(status_json, j)
            /\ wpc' = [wpc EXCEPT ![j] = "w531w"]
            /\ UNCHANGED err_msg
       ELSE /\ wpc' = [wpc EXCEPT ![j] = "w554"]
            /\ err_msg' = [err_msg EXCEPT ![j] = JsonError]
            /\ UNCHANGED status_json
    /\ UNCHANGED <<apc, req_views, paths, uploads, job_dirs, committed, jobs_table,
                   runs, rpc, rjob, rres, faults,
                   files, cargs, outputs, upl>>

done_write_status(j) == WriteStatusWrite(j, "w531w", DoneDoc(j, paths[j]), "w542")

\* lines 542-550
done_db_mark(j) ==
    /\ wpc[j] = "w542"
    /\ jobs_table' = db_mark_job_done(jobs_table, j,
                         Result(j, paths[j]).overlay_url,
                         Result(j, paths[j]).analysis_url,
                         Result(j, paths[j]).practice_plan_pdf_url,
                         Result(j, paths[j]).practice_plan_txt_url,
                         Result(j, paths[j]).lesson_plan_url)
    /\ wpc' = [wpc EXCEPT ![j] = "returned"]
    /\ UNCHANGED <<apc, req_views, paths, uploads, job_dirs, status_json, committed,
                   err_msg, runs, rpc, rjob, rres, faults,
                   files, cargs, outputs, upl>>

\* lines 552-554
failed_db_mark(j) ==
    /\ wpc[j] = "w554"
    /\ jobs_table' = db_mark_job_failed(jobs_table, j, err_msg[j])
    /\ wpc' = [wpc EXCEPT ![j] = "w556t"]
    /\ UNCHANGED <<apc, req_views, paths, uploads, job_dirs, status_json, committed,
                   err_msg, runs, rpc, rjob, rres, faults,
                   files, cargs, outputs, upl>>

\* lines 555-556: st = read_status(job_id) (a status.json that does not
\* parse raises inside the except clause, which ends the thread), then
\* write_status opens the file
failed_write_status_open(j) ==
    /\ wpc[j] = "w556t"
    /\ IF Readable(status_json, j)
       THEN /\ status_json' = Truncate(status_json, j)
            /\ wpc' = [wpc EXCEPT ![j] = "w556w"]
       ELSE /\ wpc' = [wpc EXCEPT ![j] = "died"]
            /\ UNCHANGED status_json
    /\ UNCHANGED <<apc, req_views, paths, uploads, job_dirs, committed, jobs_table,
                   err_msg, runs, rpc, rjob, rres, faults,
                   files, cargs, outputs, upl>>

\* lines 556-565
failed_write_status(j) ==
    WriteStatusWrite(j, "w556w", FailedDoc(err_msg[j]), "returned")

\* where an exception raised at position `at` takes the worker: out of the
\* thread before the try statement and inside the except clause, to the
\* except clause inside the try statement
RaiseTo(at) == IF at \in InTry THEN "w554" ELSE "died"

\* a store call of the worker raises: the call has no effect on its store (a
\* write_text that fails after opening the file leaves it empty, which is the
\* state the open step has already produced)
worker_store_error(j) ==
    /\ wpc[j] \in DbCalls \cup FileCalls
    /\ faults < MaxFaults
    /\ faults' = faults + 1
    /\ wpc' = [wpc EXCEPT ![j] = RaiseTo(wpc[j])]
    /\ err_msg' = [err_msg EXCEPT ![j] =
                     IF wpc[j] \in InTry
                     THEN (IF wpc[j] \in DbCalls THEN DbError ELSE FileError)
                     ELSE @]
    /\ UNCHANGED <<apc, req_views, paths, uploads, job_dirs, status_json, committed,
                   jobs_table, runs, rpc, rjob, rres,
                   files, cargs, outputs, upl>>

(***************************************************************************)
(* GET /jobs/{job_id}: read_status                                         *)
(***************************************************************************)
\* lines 351-364: p.exists(); without the file the answer is synthesized.
\* rres keeps the previous answer while the reader polls the same job again.
read_status_exists(j) ==
    /\ rpc = "idle"
    /\ rjob' = j
    /\ IF j \in DOMAIN status_json
       THEN /\ rpc' = "r365"
            /\ rres' = IF rjob = j THEN rres ELSE NoRead
       ELSE /\ rpc' = "idle"
            /\ rres' = IF j \in job_dirs
                       THEN [kind |-> "document", doc |-> <<QueuedDoc>>]
                       ELSE [kind |-> "not_found", doc |-> << >>]
    /\ UNCHANGED <<apc, req_views, paths, uploads, job_dirs, status_json, committed,
                   jobs_table, wpc, err_msg, runs, faults,
                   files, cargs, outputs, upl>>

\* line 365: json.loads(p.read_text()); a file that holds no complete
\* document raises JSONDecodeError
read_status_load ==
    /\ rpc = "r365"
    /\ rpc' = "idle"
    /\ rres' = IF Readable(status_json, rjob)
               THEN [kind |-> "document", doc |-> status_json[rjob]]
               ELSE [kind |-> "JSONDecodeError", doc |-> << >>]
    /\ UNCHANGED <<apc, req_views, paths, uploads, job_dirs, status_json, committed,
                   jobs_table, wpc, err_msg, runs, rjob, faults,
                   files, cargs, outputs, upl>>

(***************************************************************************)
(* Specifications                                                          *)
(***************************************************************************)
\* the steps of the worker thread of job j whose calls return
WorkerStep(j) ==
    \/ start_write_status_open(j)
    \/ start_write_status(j)
    \/ start_db_update(j)
    \/ side_db_update(j)
    \/ side_run(j)
    \/ front_db_update(j)
    \/ front_run(j)
    \/ combine_db_update(j)
    \/ combine_run(j)
    \/ build_db_update(j)
    \/ build_run(j)
    \/ done_write_status_open(j)
    \/ done_write_status(j)
    \/ done_db_mark(j)
    \/ failed_db_mark(j)
    \/ failed_write_status_open(j)
    \/ failed_write_status(j)

AnalyzeStep(j) ==
    \/ analyze_begin(j)
    \/ analyze_side(j)
    \/ analyze_front(j)
    \/ analyze_mkdir(j)
    \/ analyze_write_status_open(j)
    \/ analyze_write_status(j)
    \/ analyze_db_insert(j)
    \/ analyze_thread_start(j)

Next ==
    \/ \E j \in Jobs : AnalyzeStep(j)
    \/ \E j \in Jobs : analyze_store_error(j)
    \/ \E j \in Jobs : WorkerStep(j)
    \/ \E j \in Jobs : worker_store_error(j)
    \/ \E j \in Jobs : read_status_exists(j)
    \/ read_status_load

Spec == Init /\ [][Next]_vars

\* every external process terminates (RunStage has no hanging outcome) and
\* the thread of each job keeps being scheduled
FairSpec == Spec /\ \A j \in Jobs : WF_vars(WorkerStep(j))

\* one job, followed from its request to the end of its worker, with
\* external programs that write any of their files
ArtifactNext ==
    \/ AnalyzeStep(1)
    \/ WorkerStep(1)
    \/ worker_store_error(1)

ArtifactSpec == InitAnyOutputs /\ [][ArtifactNext]_vars

\* concurrent jobs: the requests and worker threads of all of JobIds
ConcurrentNext ==
    \/ \E j \in JobIds : AnalyzeStep(j)
    \/ \E j \in JobIds : WorkerStep(j)
    \/ \E j \in JobIds : worker_store_error(j)

ConcurrentSpec == Init /\ [][ConcurrentNext]_vars

(***************************************************************************)
(* _save_and_validate of one upload, step by step: save_upload_with_limit  *)
(* (lines 106-136), the duration probe and the duration ceiling (592-620). *)
(* Sizes are in bytes, durations in hundredths of a second.                *)
(***************************************************************************)
\* longest upload stream followed
MaxStreamLen == 6
\* largest max_bytes followed (MAX_UPLOAD_BYTES is 400 MiB in the program)
MaxLimit == 4
\* largest number of bytes one upload.file.read returns (1 MiB in the program)
ChunkBytes == 2
\* probed durations followed: this far below and above the ceiling
DurationSpan == 110

\* MAX_VIDEO_SECONDS = 70.0 and the 0.05 of line 609, in hundredths
MAX_VIDEO_SECONDS == 7000
DurationTolerance == 5

\* an upload stream of n bytes; byte i is the number i, so that a lost,
\* repeated or reordered byte shows in the file's content
Stream(n) == [i \in 1..n |-> i]

Durations ==
    (MAX_VIDEO_SECONDS + DurationTolerance - DurationSpan)
        ..(MAX_VIDEO_SECONDS + DurationTolerance + DurationSpan)

Min(a, b) == IF a < b THEN a ELSE b

\* line 116 with written >= max_bytes
LimitExceeded_at_limit(written, max_bytes) == written >= max_bytes

\* line 116
LimitExceeded(written, max_bytes) == written > max_bytes

\* line 609 without the tolerance
TooLong_no_tolerance(dur) == dur > MAX_VIDEO_SECONDS

\* line 609
TooLong(dur) == dur > MAX_VIDEO_SECONDS + DurationTolerance

\* the call starts with any stream and any limit
InitUpload ==
    /\ InitState
    /\ outputs = "nominal"
    /\ \E n \in 0..MaxStreamLen, m \in 0..MaxLimit :
          upl = [NoUpload EXCEPT !.pc = "open", !.stream = Stream(n), !.max_bytes = m]

UploadFrame ==
    UNCHANGED <<apc, req_views, paths, uploads, job_dirs, status_json, committed,
                jobs_table, wpc, err_msg, runs, rpc, rjob, rres, faults,
                files, cargs, outputs>>

\* lines 107-110: dest.open("wb") creates or empties the file
save_open ==
    /\ upl.pc = "open"
    /\ upl' = [upl EXCEPT !.pc = "read", !.exists = TRUE, !.content = << >>,
                          !.written = 0]
    /\ UploadFrame

\* lines 112-114, 122: read returns nothing at the end of the stream; the
\* loop ends, the file is closed and written is returned
save_end_of_stream ==
    /\ upl.pc = "read"
    /\ upl.pos = Len(upl.stream)
    /\ upl' = [upl EXCEPT !.pc = "probe", !.ret = "saved"]
    /\ UploadFrame

\* lines 112-121: read returns between 1 and ChunkBytes bytes; they are
\* counted, then written unless the count exceeds max_bytes
save_chunk ==
    /\ upl.pc = "read"
    /\ upl.pos < Len(upl.stream)
    /\ \E n \in 1..Min(ChunkBytes, Len(upl.stream) - upl.pos) :
        LET chunk == SubSeq(upl.stream, upl.pos + 1, upl.pos + n)
            written == upl.written + n
        IN  IF LimitExceeded(written, upl.max_bytes)
            THEN upl' = [upl EXCEPT !.pos = @ + n, !.written = written,
                                    !.pc = "too_large"]
            ELSE upl' = [upl EXCEPT !.pos = @ + n, !.written = written,
                                    !.content = @ \o chunk]
    /\ UploadFrame

\* lines 123-129: the HTTPException handler removes the file and re-raises
save_too_large ==
    /\ upl.pc = "too_large"
    /\ upl' = [upl EXCEPT !.pc = "ended", !.exists = FALSE, !.content = << >>,
                          !.ret = "File too large"]
    /\ UploadFrame

\* largest hh and mm of a Duration: field followed
MaxHours == 1
MaxMinutes == 1

\* what ffprobe may print on stdout: a decimal number of seconds (held in
\* hundredths), "N/A", or nothing
ProbeOutputs ==
    {[kind |-> "number", value |-> d] : d \in Durations}
        \cup {[kind |-> "N/A", value |-> 0], [kind |-> "empty", value |-> 0]}

\* the completed ffprobe processes followed: any output with exit code 0; no
\* output, or a number, with a non-zero exit code
ProbeRuns ==
    {[returncode |-> 0, stdout |-> out] : out \in ProbeOutputs}
        \cup {[returncode |-> 1, stdout |-> out] :
                 out \in {[kind |-> "empty", value |-> 0],
                          [kind |-> "number", value |-> MAX_VIDEO_SECONDS]}}

\* what ffmpeg -i may print on stderr: nothing, text without a
\* "Duration: h:m:s" field (no such line, or "Duration: N/A"), or text with
\* one; ss is in hundredths
TranscoderOutputs ==
    {[kind |-> "duration", hh |-> hh, mm |-> mm, ss |-> d % 6000] :
        hh \in 0..MaxHours, mm \in 0..MaxMinutes, d \in Durations}
        \cup {[kind |-> "no_match", hh |-> 0, mm |-> 0, ss |-> 0],
              [kind |-> "empty", hh |-> 0, mm |-> 0, ss |-> 0]}

\* float(out) of line 94: the value, or nothing when float raises
Float(out) == IF out.kind = "number" THEN <<out.value>> ELSE << >>

\* lines 57-66, in hundredths: None is the empty sequence
_parse_duration_from_ffmpeg_stderr(stderr) ==
    IF stderr.kind # "duration" THEN << >>
    ELSE <<stderr.hh * 360000 + stderr.mm * 6000 + stderr.ss>>

\* lines 601-607: the exception of the probe is caught, the upload removed
\* and the 400 raised
CouldNotRead(u) ==
    [u EXCEPT !.pc = "ended", !.exists = FALSE, !.content = << >>,
              !.ret = "Could not read duration"]

\* lines 74-80: imageio_ffmpeg is imported and asked for its ffmpeg binary;
\* either may raise
probe_import ==
    /\ upl.pc = "probe"
    /\ \/ upl' = [upl EXCEPT !.pc = "p82"]
       \/ upl' = CouldNotRead([upl EXCEPT !.ffmpeg = "unavailable"])
    /\ UploadFrame

\* lines 82-96: ffprobe is run if it is next to ffmpeg; its value is
\* returned if it exits zero and float parses its output. subprocess.run
\* raises if the file cannot be executed.
probe_ffprobe ==
    /\ upl.pc = "p82"
    /\ \/ upl' = [upl EXCEPT !.ffprobe = "absent", !.pc = "p98"]
       \/ upl' = CouldNotRead([upl EXCEPT !.ffprobe = "launch_error"])
       \/ \E p \in ProbeRuns :
            IF p.returncode = 0 /\ Float(p.stdout) # << >>
            THEN upl' = [upl EXCEPT !.ffprobe = "ran", !.p = <<p>>,
                                    !.dur = Float(p.stdout)[1], !.pc = "compare"]
            ELSE upl' = [upl EXCEPT !.ffprobe = "ran", !.p = <<p>>, !.pc = "p98"]
    /\ UploadFrame

\* lines 98-103: ffmpeg -i is run, whatever its exit code, and its stderr
\* parsed; subprocess.run raises if ffmpeg cannot be executed
probe_ffmpeg ==
    /\ upl.pc = "p98"
    /\ \/ upl' = CouldNotRead([upl EXCEPT !.ffmpeg = "unavailable"])
       \/ \E stderr \in TranscoderOutputs :
            LET dur == _parse_duration_from_ffmpeg_stderr(stderr)
            IN  IF dur = << >>
                THEN upl' = CouldNotRead([upl EXCEPT !.ffmpeg = "ran", !.p2 = <<stderr>>])
                ELSE upl' = [upl EXCEPT !.ffmpeg = "ran", !.p2 = <<stderr>>,
                                        !.dur = dur[1], !.pc = "compare"]
    /\ UploadFrame

\* lines 599-607: the probe returns a duration, or raises and the upload is
\* removed
probe_duration ==
    \/ probe_import
    \/ probe_ffprobe
    \/ probe_ffmpeg

\* lines 609-620
check_duration ==
    /\ upl.pc = "compare"
    /\ IF TooLong(upl.dur)
       THEN upl' = [upl EXCEPT !.pc = "ended", !.exists = FALSE, !.content = << >>,
                               !.ret = "video too long"]
       ELSE upl' = [upl EXCEPT !.pc = "ended", !.ret = "admitted"]
    /\ UploadFrame

UploadNext ==
    \/ save_open
    \/ save_end_of_stream
    \/ save_chunk
    \/ save_too_large
    \/ probe_duration
    \/ check_duration

UploadSpec == InitUpload /\ [][UploadNext]_vars

(***************************************************************************)
(* Vocabulary of the properties                                            *)
(***************************************************************************)
Terminal == {"done", "failed"}
Statuses == {"queued", "running", "done", "failed"}

HasRow(j) == j \in DOMAIN jobs_table
HasDoc(j) == Readable(status_json, j)
Row(j) == jobs_table[j]
Doc(j) == status_json[j][1]
\* the last document that was written completely
HasCommitted(j) == j \in DOMAIN committed
Committed(j) == committed[j][1]

\* the external processes of the job that exited non-zero
FailedRuns(j) == {i \in 1..Len(runs[j]) : runs[j][i][2] # 0}
LastRun(j) == runs[j][Len(runs[j])]

TypeOK ==
    /\ apc \in [JobIds -> {"idle", "a628", "a632", "a637", "a638t", "a638w", "a650",
                         "a659"} \cup AnalyzeEnded]
    /\ wpc \in [JobIds -> {"none"} \cup BeforeTry \cup InTry \cup InExcept \cup Ended]
    /\ req_views \in [JobIds -> SUBSET Labels]
    /\ paths \in [JobIds -> SUBSET Labels]
    /\ uploads \subseteq JobIds \X Labels
    /\ job_dirs \subseteq JobIds
    /\ DOMAIN status_json \subseteq job_dirs
    /\ DOMAIN committed \subseteq DOMAIN status_json
    /\ DOMAIN jobs_table \subseteq JobIds
    /\ \A j \in DOMAIN jobs_table : Row(j).status \in Statuses
    /\ \A j \in Jobs : HasDoc(j) => Doc(j) = Committed(j)
    /\ rpc \in {"idle", "r365"}
    /\ rjob \in JobIds
    /\ files \subseteq JobIds \X (UNION {StageFiles(st) : st \in Labels \cup
                              {"combine_views", "build_combined_outputs"}}
                              \cup {NotAnObject})
    /\ cargs \in [JobIds -> SUBSET Labels]
    /\ outputs \in {"nominal", "any"}
    /\ rres.kind \in {"none", "not_found", "document", "JSONDecodeError"}
    /\ faults \in 0..MaxFaults
    /\ upl.pc \in {"idle", "open", "read", "too_large", "probe", "p82", "p98",
                   "compare", "ended"}
    /\ upl.ffprobe \in {"not_run", "absent", "launch_error", "ran"}
    /\ upl.ffmpeg \in {"not_run", "unavailable", "ran"}
    /\ Len(upl.p) <= 1 /\ Len(upl.p2) <= 1
    /\ upl.ret \in {"none", "saved", "File too large", "Could not read duration",
                    "video too long", "admitted"}
    /\ upl.pos \in 0..Len(upl.stream)
    /\ upl.exists \in BOOLEAN

(***************************************************************************)
(* C1. Terminal states are absorbing in both stores: once status.json or   *)
(* the jobs row of a job holds status done or failed, no later step        *)
(* changes that store's content for the job (so a document written as done *)
(* is never rewritten as failed, and polls after a terminal poll return    *)
(* the same payload).                                                      *)
(***************************************************************************)
C1_TerminalAbsorbing ==
    [][\A j \in Jobs :
        /\ (HasDoc(j) /\ Doc(j).status \in Terminal)
              => (j \in DOMAIN status_json' /\ status_json'[j] = status_json[j])
        /\ (HasRow(j) /\ Row(j).status \in Terminal)
              => (j \in DOMAIN jobs_table' /\ jobs_table'[j] = jobs_table[j])]_vars

(***************************************************************************)
(* C2. Every job accepted by POST /analyze (the handler returned the job   *)
(* id) eventually holds a terminal status, done or failed, in status.json  *)
(* and in its jobs row, when every external process terminates and the     *)
(* worker thread keeps being scheduled.                                    *)
(***************************************************************************)
BothTerminal(j) ==
    /\ HasDoc(j) /\ Doc(j).status \in Terminal
    /\ HasRow(j) /\ Row(j).status \in Terminal

C2_EventuallyTerminal ==
    \A j \in Jobs : (apc[j] = "returned") ~> BothTerminal(j)

(***************************************************************************)
(* C3. In each store separately the progress of a job lies in [0,1], never *)
(* decreases from one read to the next, and is exactly 1.0 whenever the    *)
(* store's status is done or failed; the same holds of what successive     *)
(* polls of GET /jobs/{job_id} return.                                     *)
(***************************************************************************)
ProgressInRange(r) ==
    /\ r.progress \in 0..100
    /\ r.status \in Terminal => r.progress = 100

C3_ProgressMonotone ==
    /\ [](\A j \in Jobs :
            /\ HasRow(j) => ProgressInRange(Row(j))
            /\ HasDoc(j) => ProgressInRange(Doc(j)))
    /\ [](rres.kind = "document" => ProgressInRange(rres.doc[1]))
    /\ [][\A j \in Jobs :
            /\ (HasRow(j) /\ j \in DOMAIN jobs_table')
                  => jobs_table'[j].progress >= Row(j).progress
            /\ (HasCommitted(j) /\ Readable(status_json', j))
                  => status_json'[j][1].progress >= Committed(j).progress
            /\ (rres.kind = "document" /\ rres'.kind = "document" /\ rjob' = rjob)
                  => rres'.doc[1].progress >= rres.doc[1].progress]_vars

\* a two-view job whose front process exited non-zero, failed in both stores
\* after the row went through 0.01, 0.10 and 0.45 and a poll returned 1.0
C3_Witness ==
    \E j \in Jobs :
        /\ paths[j] = Labels
        /\ Len(runs[j]) = 2 /\ LastRun(j) = <<"front", 1>>
        /\ HasRow(j) /\ Row(j).status = "failed" /\ Row(j).progress = 100
        /\ HasDoc(j) /\ Doc(j).status = "failed" /\ Doc(j).progress = 100
        /\ rjob = j /\ rres.kind = "document" /\ rres.doc[1].progress = 100

(***************************************************************************)
(* C4. The status of a job in each store goes queued, running, then done   *)
(* or failed, and no other way: queued is written by analyze before the    *)
(* worker thread exists, running is entered only by the first two store    *)
(* calls of start_background_job, status never returns to queued and never *)
(* goes from queued to done (nor from one terminal status to the other).   *)
(***************************************************************************)
StatusStep(s, t) ==
    \/ s = t
    \/ <<s, t>> \in {<<"queued", "running">>, <<"running", "done">>,
                     <<"running", "failed">>}

C4_StatusOrder ==
    /\ [](\A j \in Jobs : wpc[j] # "none" => (HasRow(j) /\ HasCommitted(j)))
    /\ [][\A j \in Jobs :
            /\ (j \in DOMAIN jobs_table')
                  => IF HasRow(j)
                     THEN StatusStep(Row(j).status, jobs_table'[j].status)
                     ELSE jobs_table'[j].status = "queued" /\ wpc[j] = "none"
            /\ (j \in DOMAIN committed')
                  => IF HasCommitted(j)
                     THEN StatusStep(Committed(j).status, committed'[j][1].status)
                     ELSE committed'[j][1].status = "queued" /\ wpc[j] = "none"
            /\ (HasRow(j) /\ Row(j).status # "running"
                  /\ jobs_table'[j].status = "running") => wpc[j] = "w430"
            /\ (HasCommitted(j) /\ Committed(j).status # "running"
                  /\ committed'[j][1].status = "running") => wpc[j] = "w420w"]_vars

(***************************************************************************)
(* C5. If an external stage of a job (side or front analysis,              *)
(* combine_views, build_combined_outputs) exits non-zero, the job never    *)
(* reaches done in either store, and when its worker has ended the jobs    *)
(* row and status.json both hold status failed with an error message.      *)
(***************************************************************************)
C5_StageFailureRecorded ==
    \A j \in Jobs :
        FailedRuns(j) # {} =>
            /\ HasRow(j) => Row(j).status # "done"
            /\ HasCommitted(j) => Committed(j).status # "done"
            /\ wpc[j] \in Ended =>
                /\ HasRow(j) /\ Row(j).status = "failed"
                /\ Row(j).error_message # "null"
                /\ HasDoc(j) /\ Doc(j).status = "failed"
                /\ Doc(j).error # "null"

(***************************************************************************)
(* C6 as claimed. The stage recorded for a failed job names the stage that *)
(* failed: "building_combined_outputs" when the report builder exited      *)
(* non-zero, the front view's stage when the front process exited non-zero.*)
(***************************************************************************)
\* the stage label the worker records before running a stage
StageLabel(stage) ==
    CASE stage = "side" -> "running_side"
      [] stage = "front" -> "running_front"
      [] stage = "combine_views" -> "combining_views"
      [] OTHER -> "building_combined_outputs"

C6_StageNamesFailedStage ==
    \A j \in Jobs :
        FailedRuns(j) # {} =>
            /\ (HasRow(j) /\ Row(j).status = "failed")
                  => Row(j).stage = StageLabel(LastRun(j)[1])
            /\ (HasDoc(j) /\ Doc(j).status = "failed")
                  => Doc(j).stage = StageLabel(LastRun(j)[1])

(***************************************************************************)
(* C6 as amended. A store that records a job as failed records the stage   *)
(* "failed"; the stage that failed is named by the recorded error message, *)
(* which is "RuntimeError: build_combined_outputs failed" when the report  *)
(* builder exited non-zero and "RuntimeError: front pipeline failed" when  *)
(* the front process exited non-zero (likewise for side and combine_views).*)
(***************************************************************************)
\* the message of the RuntimeError a stage's non-zero exit raises
FailureMessage(stage) ==
    CASE stage = "side" -> "RuntimeError: side pipeline failed"
      [] stage = "front" -> "RuntimeError: front pipeline failed"
      [] stage = "combine_views" -> "RuntimeError: combine_views failed"
      [] OTHER -> "RuntimeError: build_combined_outputs failed"

C6_FailedStageIsFailed ==
    \A j \in Jobs :
        /\ (HasRow(j) /\ Row(j).status = "failed") =>
              /\ Row(j).stage = "failed"
              /\ FailedRuns(j) # {}
                    => Row(j).error_message = FailureMessage(LastRun(j)[1])
        /\ (HasDoc(j) /\ Doc(j).status = "failed") =>
              /\ Doc(j).stage = "failed"
              /\ FailedRuns(j) # {}
                    => Doc(j).error = FailureMessage(LastRun(j)[1])

\* a two-view job whose report builder exited non-zero, failed in both stores
C6_Witness ==
    \E j \in Jobs :
        /\ paths[j] = Labels
        /\ Len(runs[j]) = 4 /\ LastRun(j) = <<"build_combined_outputs", 1>>
        /\ wpc[j] = "returned"
        /\ HasRow(j) /\ Row(j).status = "failed"
        /\ HasDoc(j) /\ Doc(j).status = "failed"

(***************************************************************************)
(* C7. Every error raised at any step of start_background_job is caught    *)
(* and turned into a terminal failed transition with the message           *)
(* "ErrorKind: message": no exception leaves the thread, and a worker that *)
(* caught an error ends with both stores failed and carrying that message. *)
(***************************************************************************)
C7_ErrorsCaught ==
    \A j \in Jobs :
        /\ wpc[j] # "died"
        /\ (wpc[j] = "returned" /\ err_msg[j] # "null") =>
              /\ HasRow(j) /\ Row(j).status = "failed"
              /\ Row(j).error_message = err_msg[j]
              /\ HasDoc(j) /\ Doc(j).status = "failed"
              /\ Doc(j).error = err_msg[j]

(***************************************************************************)
(* C8. A read_status that runs concurrently with write_status returns a    *)
(* document write_status wrote completely, or the synthesized queued or    *)
(* not_found answer; it never meets an empty or partly written status.json.*)
(***************************************************************************)
C8_ReaderSeesCommitted ==
    /\ rres.kind # "JSONDecodeError"
    /\ rres.kind = "document"
          => \/ rres.doc = <<QueuedDoc>>
             \/ (HasCommitted(rjob) /\ rres.doc = committed[rjob])

(***************************************************************************)
(* C9. At every stage boundary the worker writes the new stage and         *)
(* progress to the jobs row and to status.json: while an external stage    *)
(* runs, status.json holds the stage and progress the jobs row holds.      *)
(***************************************************************************)
C9_BothStoresAtStageBoundaries ==
    \A j \in Jobs :
        wpc[j] \in {"w436", "w440", "w461", "w477"} =>
            /\ HasRow(j) /\ HasDoc(j)
            /\ Doc(j).stage = Row(j).stage
            /\ Doc(j).progress = Row(j).progress

(***************************************************************************)
(* C10. A request that supplies no view, or one of whose views fails       *)
(* admission, creates nothing: no jobs row, no status.json, no result      *)
(* directory, no worker thread. Conversely a job that exists in either     *)
(* store, or has a worker, was created from a request that supplied at     *)
(* least one view and all of whose supplied views were admitted.           *)
(***************************************************************************)
JobExists(j) ==
    \/ j \in DOMAIN jobs_table
    \/ j \in DOMAIN status_json
    \/ j \in job_dirs
    \/ wpc[j] # "none"

C10_NoJobWithoutAdmission ==
    \A j \in Jobs :
        /\ apc[j] = "rejected" => ~JobExists(j)
        /\ (apc[j] # "idle" /\ paths[j] # req_views[j] /\ apc[j] \notin {"a628", "a632"})
              => apc[j] = "rejected"
        /\ JobExists(j) => (req_views[j] # {} /\ paths[j] = req_views[j])

\* a two-view request whose side upload was admitted and whose front upload
\* was not
C10_Witness ==
    \E j \in Jobs :
        /\ apc[j] = "rejected"
        /\ req_views[j] = Labels
        /\ paths[j] = {"side"}
        /\ ~JobExists(j)

(***************************************************************************)
(* C11. After POST /analyze has ended with an admission error, none of the *)
(* upload files written for that request is left under uploads/, the       *)
(* admitted side upload of a two-view request whose front upload failed    *)
(* admission included.                                                     *)
(***************************************************************************)
UploadsOf(j) == {l \in Labels : <<j, l>> \in uploads}

C11_NoUploadLeftBehind ==
    \A j \in Jobs : apc[j] = "rejected" => UploadsOf(j) = {}


\* the file's content is the first bytes of the stream
IsPrefix(content, stream) ==
    /\ Len(content) <= Len(stream)
    /\ content = SubSeq(stream, 1, Len(content))

(***************************************************************************)
(* C12. For every upload stream and chunking of it, save_upload_with_limit *)
(* never leaves more than max_bytes plus one chunk written to the          *)
(* destination during the transfer; if the stream is longer than max_bytes *)
(* the call fails with the too-large error as soon as the running count    *)
(* first exceeds max_bytes, without reading the rest of the stream, and no *)
(* destination file exists afterward; if the stream is at most max_bytes   *)
(* long the call succeeds, returns the total length, and the file holds    *)
(* exactly the stream's bytes.                                             *)
(***************************************************************************)
C12_SaveUploadWithLimit ==
    /\ upl.exists =>
          /\ Len(upl.content) <= upl.max_bytes + ChunkBytes
          /\ IsPrefix(upl.content, upl.stream)
    /\ upl.pc = "read" => upl.written <= upl.max_bytes
    /\ (upl.pc = "too_large" \/ upl.ret = "File too large") =>
          /\ Len(upl.stream) > upl.max_bytes
          /\ upl.written > upl.max_bytes
          /\ upl.written <= upl.max_bytes + ChunkBytes
          /\ upl.pos = upl.written
    /\ upl.ret = "File too large" => ~upl.exists
    /\ Len(upl.stream) > upl.max_bytes => upl.ret \in {"none", "File too large"}
    /\ Len(upl.stream) <= upl.max_bytes =>
          /\ upl.pc # "too_large"
          /\ upl.ret # "File too large"
    /\ upl.pc = "probe" =>
          /\ upl.ret = "saved"
          /\ upl.written = Len(upl.stream)
          /\ upl.exists
          /\ upl.content = upl.stream

\* a stream cut off with the rest unread, after some of it was written
C12_Witness ==
    /\ upl.ret = "File too large"
    /\ upl.pos < Len(upl.stream)
    /\ upl.max_bytes > 0
    /\ ~upl.exists

(***************************************************************************)
(* C20. A saved upload whose probed duration is greater than 70.0 seconds  *)
(* plus the 0.05 second tolerance is rejected with the "video too long"    *)
(* error and its file is deleted; one whose probed duration is at most     *)
(* 70.05 seconds is admitted and its file kept.  In particular a 71-second *)
(* video is rejected and a 70-second video is admitted.                    *)
(***************************************************************************)
C20_DurationThreshold ==
    (upl.pc = "ended" /\ upl.ret \in {"video too long", "admitted"}) =>
        /\ upl.dur > 7005 =>
              /\ upl.ret = "video too long"
              /\ ~upl.exists
        /\ upl.dur <= 7005 =>
              /\ upl.ret = "admitted"
              /\ upl.exists
              /\ upl.content = upl.stream
        /\ upl.dur = 7100 => upl.ret = "video too long"
        /\ upl.dur = 7000 => upl.ret = "admitted"

\* a 71-second video has been rejected and deleted
C20_Witness ==
    /\ upl.pc = "ended"
    /\ upl.dur = 7100
    /\ upl.ret = "video too long"
    /\ Len(upl.stream) > 0
    /\ ~upl.exists


\* status.json of the job was completely written as done
DocDone(j) == HasCommitted(j) /\ Committed(j).status = "done"

(***************************************************************************)
(* C13. In the payload of a done job, a job created with only a front      *)
(* upload has overlay_side_url null and views.side false, and the side     *)
(* analysis is never passed to the combiner; symmetrically for a job       *)
(* created with only a side upload; a job created with both views has      *)
(* views.side and views.front both true and reports each view's overlay    *)
(* URL whenever that view's overlay file was produced.                     *)
(***************************************************************************)
C13_ViewsOfDonePayload ==
    \A j \in Jobs :
        /\ \A v \in Labels : v \notin paths[j] => v \notin cargs[j]
        /\ DocDone(j) =>
            LET result == Committed(j).result
            IN  /\ result.views = paths[j]
                /\ "side" \notin paths[j] => result.overlay_side_url = "null"
                /\ "front" \notin paths[j] => result.overlay_front_url = "null"
                /\ paths[j] = Labels =>
                    /\ (Exists(j, WebOverlay("side")) \/ Exists(j, FullOverlay("side")))
                          => result.overlay_side_url # "null"
                    /\ (Exists(j, WebOverlay("front")) \/ Exists(j, FullOverlay("front")))
                          => result.overlay_front_url # "null"

\* a front-only job is done, with its front overlay reported
C13_Witness ==
    /\ DocDone(1)
    /\ paths[1] = {"front"}
    /\ cargs[1] = {"front"}
    /\ Committed(1).result.overlay_front_url # "null"
    /\ Committed(1).result.overlay_url = Committed(1).result.overlay_front_url

\* the job has failed: its worker is in or past the except clause, or a
\* store holds status failed
JobFailed(j) ==
    \/ wpc[j] \in InExcept \cup Ended
    \/ HasRow(j) /\ Row(j).status = "failed"
    \/ HasCommitted(j) /\ Committed(j).status = "failed"

(***************************************************************************)
(* C14. The system performs zero automatic retries: within one job each    *)
(* external process (side analysis, front analysis, combine_views,         *)
(* build_combined_outputs) is invoked at most once, and after a job has    *)
(* failed no external process is invoked for that job again.               *)
(***************************************************************************)
C14_NoRetries ==
    /\ [](\A j \in Jobs : \A a, b \in 1..Len(runs[j]) :
              runs[j][a][1] = runs[j][b][1] => a = b)
    /\ [][\A j \in Jobs : (JobFailed(j) \/ FailedRuns(j) # {}) => runs'[j] = runs[j]]_vars

\* the front analysis of a two-view job exited non-zero and the job ended
C14_Witness ==
    /\ wpc[1] \in Ended
    /\ Len(runs[1]) = 2
    /\ LastRun(1) = <<"front", 1>>
    /\ HasRow(1) /\ Row(1).status = "failed"

(***************************************************************************)
(* C15. A stage whose external process exits zero but whose required       *)
(* output file is missing is a stage failure that ends the job as failed;  *)
(* consequently a job reaches done only if every artifact URL its done     *)
(* payload reports (analysis_url, lesson_plan_url, practice_plan_pdf_url)  *)
(* refers to a file that exists.                                           *)
(***************************************************************************)
C15_DoneOnlyWithArtifacts ==
    \A j \in Jobs :
        (DocDone(j) \/ (HasRow(j) /\ Row(j).status = "done")) =>
            /\ \A v \in paths[j] : Exists(j, ViewAnalysis(v))
            /\ Exists(j, CombinedAnalysis)
            /\ Exists(j, LessonPlan)
            /\ Exists(j, PracticePlanPdf)


\* the artifact columns of a jobs row
RowArtifacts(j) ==
    {Row(j).overlay_url, Row(j).analysis_url, Row(j).practice_plan_url,
     Row(j).lesson_plan_url}

(***************************************************************************)
(* C16. In every reachable state of each store, the error field            *)
(* (status.json error, jobs row error_message) is non-null only if the     *)
(* status is failed, and the artifact fields (status.json result, jobs row *)
(* overlay_url, analysis_url, practice_plan_url, lesson_plan_url) are      *)
(* non-null only if the status is done.                                    *)
(***************************************************************************)
C16_FieldsMatchStatus ==
    \A j \in Jobs :
        /\ HasDoc(j) =>
            /\ Doc(j).error # "null" => Doc(j).status = "failed"
            /\ Doc(j).result # NullResult => Doc(j).status = "done"
        /\ HasRow(j) =>
            /\ Row(j).error_message # "null" => Row(j).status = "failed"
            /\ RowArtifacts(j) # {"null"} => Row(j).status = "done"

\* the row holds an error message while status.json still holds the result
C16_Witness ==
    /\ HasRow(1) /\ Row(1).error_message # "null"
    /\ HasDoc(1) /\ Doc(1).result # NullResult

\* the stages of a job with the views ps, in the order of lines 434-477
ExpectedStages(ps) ==
    (IF "side" \in ps THEN <<"side">> ELSE << >>)
        \o (IF "front" \in ps THEN <<"front">> ELSE << >>)
        \o <<"combine_views", "build_combined_outputs">>

(***************************************************************************)
(* C17. Within one job the external stages run strictly sequentially in a  *)
(* fixed order: side analysis (if supplied) before front analysis (if      *)
(* supplied); front analysis is not started if side analysis failed;       *)
(* combine_views is invoked only after every supplied view's analysis      *)
(* exited zero; build_combined_outputs only after combine_views exited     *)
(* zero; and the done transition is written only after                     *)
(* build_combined_outputs exited zero.                                     *)
(***************************************************************************)
C17_StageOrder ==
    \A j \in Jobs :
        LET expected == ExpectedStages(paths[j])
        IN  /\ Len(runs[j]) <= Len(expected)
            /\ \A i \in 1..Len(runs[j]) :
                  /\ runs[j][i][1] = expected[i]
                  /\ i < Len(runs[j]) => runs[j][i][2] = 0
            /\ (\/ wpc[j] \in {"w531t", "w531w", "w542"}
                \/ DocDone(j)
                \/ HasRow(j) /\ Row(j).status = "done") =>
                  /\ Len(runs[j]) = Len(expected)
                  /\ FailedRuns(j) = {}

\* a two-view job is done after its four stages
C17_Witness ==
    /\ DocDone(1)
    /\ paths[1] = Labels
    /\ Len(runs[1]) = 4
    /\ LastRun(1) = <<"build_combined_outputs", 0>>

(***************************************************************************)
(* C18. The two stores agree once a job's worker has finished: after       *)
(* start_background_job returns or dies, the jobs row and status.json hold *)
(* the same terminal status with the same artifact URLs or the same error  *)
(* message; and the two stores never hold different terminal statuses (one *)
(* done, the other failed) at the same time.                               *)
(***************************************************************************)
C18_StoresAgree ==
    \A j \in Jobs :
        /\ wpc[j] \in Ended =>
            /\ HasRow(j) /\ HasDoc(j)
            /\ Doc(j).status \in Terminal
            /\ Row(j).status = Doc(j).status
            /\ Row(j).error_message = Doc(j).error
            /\ Row(j).overlay_url = Doc(j).result.overlay_url
            /\ Row(j).analysis_url = Doc(j).result.analysis_url
            /\ Row(j).practice_plan_url = Doc(j).result.practice_plan_pdf_url
            /\ Row(j).lesson_plan_url = Doc(j).result.lesson_plan_url
        /\ (HasRow(j) /\ HasDoc(j) /\ Row(j).status \in Terminal
                /\ Doc(j).status \in Terminal) => Row(j).status = Doc(j).status

\* what a step leaves of a job: its row, its status.json, its result
\* directory and files, and its worker
JobState(j) ==
    [row |-> IF j \in DOMAIN jobs_table THEN <<jobs_table[j]>> ELSE << >>,
     doc |-> IF j \in DOMAIN status_json THEN <<status_json[j]>> ELSE << >>,
     dir |-> j \in job_dirs,
     results |-> {f \in files : f[1] = j},
     worker |-> <<wpc[j], runs[j], err_msg[j], cargs[j]>>]

(***************************************************************************)
(* C19. Jobs are isolated from each other: with two or more jobs running   *)
(* concurrently, every step of one job's worker (a stage failure and a     *)
(* storage error raised while reporting a failure included) leaves every   *)
(* other job's row, status.json, result directory and worker unchanged,    *)
(* and each job has one worker, started once, by POST /analyze.            *)
(***************************************************************************)
C19_JobsIsolated ==
    [][\A j \in JobIds :
          /\ wpc'[j] # wpc[j] =>
                \A k \in JobIds \ {j} : JobState(k)' = JobState(k)
          /\ (wpc[j] = "none" /\ wpc'[j] # "none") =>
                /\ apc[j] = "a659"
                /\ apc'[j] = "returned"
                /\ wpc'[j] = "w420t"
          /\ wpc'[j] \in {"none", "w420t"} => wpc'[j] = wpc[j] \/ wpc[j] = "none"
      ]_vars

\* one worker has failed and reports it while the other is still in its try
C19_Witness ==
    /\ wpc[1] \in InExcept
    /\ wpc[2] \in InTry
    /\ HasRow(1) /\ HasRow(2)
    /\ faults > 0


\* the overlay URL a done job is to report for a view
ExpectedOverlay(j, view) ==
    CASE <<j, WebOverlay(view)>> \in files -> WebOverlay(view)
      [] <<j, WebOverlay(view)>> \notin files /\ <<j, FullOverlay(view)>> \in files
            -> FullOverlay(view)
      [] OTHER -> "null"

\* the legacy overlay_url that goes with the two per-view URLs
LegacyOverlay(side, front) ==
    CASE side # "null" -> side
      [] OTHER -> front

(***************************************************************************)
(* C22. Overlay selection in a done job: for each supplied view the        *)
(* reported overlay URL is the web variant if the web file exists, else    *)
(* the full-size variant if that file exists, else null; the legacy        *)
(* overlay_url field (status.json and jobs row) equals the side view's     *)
(* overlay URL whenever it is non-null, and the front view's overlay URL   *)
(* only when the side overlay is null.                                     *)
(***************************************************************************)
C22_OverlaySelection ==
    \A j \in Jobs :
        LET side == IF "side" \in paths[j] THEN ExpectedOverlay(j, "side") ELSE "null"
            front == IF "front" \in paths[j] THEN ExpectedOverlay(j, "front") ELSE "null"
        IN  /\ DocDone(j) =>
                /\ Committed(j).result.overlay_side_url = side
                /\ Committed(j).result.overlay_front_url = front
                /\ Committed(j).result.overlay_url = LegacyOverlay(side, front)
            /\ (HasRow(j) /\ Row(j).status = "done") =>
                Row(j).overlay_url = LegacyOverlay(side, front)

\* a two-view job is done in both stores; its side view has only the
\* full-size overlay, its front view has both variants
C22_Witness ==
    /\ DocDone(1)
    /\ HasRow(1) /\ Row(1).status = "done"
    /\ paths[1] = Labels
    /\ ~Exists(1, WebOverlay("side")) /\ Exists(1, FullOverlay("side"))
    /\ Exists(1, WebOverlay("front")) /\ Exists(1, FullOverlay("front"))
    /\ Row(1).overlay_url = FullOverlay("side")
    /\ Committed(1).result.overlay_front_url = WebOverlay("front")


\* _save_and_validate has probed the saved upload
Probed ==
    \/ upl.pc = "compare"
    \/ upl.pc = "ended" /\ upl.ret # "File too large"

\* ffprobe is next to ffmpeg, exited zero and printed a number
ProberYields ==
    /\ upl.ffprobe = "ran"
    /\ upl.p[1].returncode = 0
    /\ upl.p[1].stdout.kind = "number"

\* ffmpeg ran and its stderr has a Duration: hh:mm:ss field
TranscoderYields ==
    /\ upl.ffmpeg = "ran"
    /\ upl.p2[1].kind = "duration"

(***************************************************************************)
(* C21. The duration probe tries the structured prober first and uses its  *)
(* value when it is present, exits zero and prints a parsable number; in   *)
(* every other case it falls back to parsing the Duration: hh:mm:ss[.fff]  *)
(* field of the transcoder's diagnostic output as hh*3600 + mm*60 + ss;    *)
(* the "duration unreadable" error is raised, and the upload deleted, only *)
(* when both paths fail to yield a duration.                               *)
(***************************************************************************)
C21_ProbeFallback ==
    Probed =>
        /\ ProberYields =>
              /\ upl.ret # "Could not read duration"
              /\ upl.dur = upl.p[1].stdout.value
              /\ upl.ffmpeg = "not_run"
        /\ ~ProberYields => upl.ffmpeg # "not_run"
        /\ (~ProberYields /\ TranscoderYields) =>
              /\ upl.ret # "Could not read duration"
              /\ upl.dur = upl.p2[1].hh * 360000 + upl.p2[1].mm * 6000 + upl.p2[1].ss
        /\ upl.ret = "Could not read duration" <=> (~ProberYields /\ ~TranscoderYields)
        /\ upl.ret = "Could not read duration" => ~upl.exists

====
